---- MODULE Spec2Model ----
(***************************************************************************)
(* A model of loup: the queue-based rotating aggregator (package file),    *)
(* the command runner (package cmd) and the retrying S3 sink (package      *)
(* awsS3) of src/unnamed/part_000, and the lifecycle manager of            *)
(* src/main.go.                                                            *)
(*                                                                         *)
(* Go channels are sequences with a closed flag.  A send on a closed       *)
(* channel and a close of a closed channel panic; a panic in any goroutine *)
(* ends the process, which the model records in `crash` and after which no *)
(* action is enabled.                                                      *)
(***************************************************************************)
EXTENDS Integers, Sequences, FiniteSets, TLC

\* ------------------------------------------------------------------ bounds

\* Capacity of File.bufCh.  The program's value is 4096 (part_000:20, :46);
\* the model scales it down so that a full queue is reached.
defaultBufSize == 1

\* Capacity of AwsS3.fileCh.  The program's value is 1000 (part_000:315, :343);
\* scaled down so that a full queue is reached.
fileChSize == 1

\* How many Write calls the producers make in one run.
MaxWrites == 3

\* The largest "lineslimit" the configuration is drawn from (0 is "unset").
MaxLinesLimit == 2

\* How many files the sink's clients submit in one run of the sink alone.
MaxFiles == 3

\* How many SIGHUP signals arrive in one run of the lifecycle manager.
MaxSighups == 1

\* Capacity of the bufio.Writer of the synchronous aggregator, in blocks.  The
\* library's value is 4096 bytes (bufio.NewWriter, file.go:45); scaled down so
\* that a full buffer is reached.
bufioSize == 2

\* How many times listen() calls cmd.Start() in one run of the command runner.
MaxSpawns == 2

\* ------------------------------------------------------- program constants

defaultLimitLines == 99999
maxRetry == 10

\* ---------------------------------------------------------------- inputs

\* The tasks that call File.Write (the stdout copier of a child process, and
\* a second caller so that concurrent writes exist).
Writers == {"w1", "w2"}

\* The tasks that call File.Exit (Cmd.Exit calls it; nothing prevents a
\* second call).
Exiters == {"e1", "e2"}

\* A block is what one Write call passes: nl newline bytes among len bytes.
BlockShapes == { [nl |-> 0, len |-> 1], [nl |-> 1, len |-> 1], [nl |-> 2, len |-> 2] }

NoBlock == [id |-> 0, nl |-> 0, len |-> 0]

\* The tasks that call Cmd.Exit in a run of one command runner: the goroutine
\* finishLoaded starts for it (main.go:65-68).
CmdExiters == {"e1"}

\* The tasks that use one synchronous aggregator: the copy goroutine of the
\* child, which calls Write, and the goroutine finishLoaded starts, which
\* calls Exit through Cmd.Exit.
SyncWriters == {"w1"}
SyncExiters == {"e1"}
SyncTasks == SyncWriters \cup SyncExiters

\* The tasks that call AwsS3.Exit.
SinkExiters == {"x1", "x2"}

\* AwsS3 error codes, part_000:318-319.
errAccessDenied == "AccessDenied"
errSignatureDoesNotMatch == "SignatureDoesNotMatch"

\* What one put attempt returns (putObject, part_000:495-509): nil, the code
\* of the service's error, or another error's text.
PutResults == {"nil", errAccessDenied, errSignatureDoesNotMatch, "RequestTimeout"}

\* The goroutines that run reload() and finishLoaded(): main() itself
\* (main.go:35) and the goroutine signals() starts (main.go:42-54).
Threads == {"main", "sig"}

\* The names the configuration sections use.
OutNames == {"o1"}
InNames == {"i1"}

\* The configuration generations a reload may decode (main.go:101-106): the
\* outputs and inputs present, and the output each input names.
Configs == { [outs |-> {"o1"}, ins |-> {"i1"}, output |-> [n \in InNames |-> "o1"]],
             [outs |-> {},     ins |-> {"i1"}, output |-> [n \in InNames |-> "o1"]] }

\* What an input's aggregator name resolves to (main.go:150-158, :174-180):
\* a File, nil when the discriminator does not match, or no such aggregator.
AggResolutions == {"file", "nil", "missing"}

NoFile == [id |-> 0, data |-> << >>, gz |-> "none"]
NoStat == [attempts |-> 0, sleeps |-> 0, first |-> "nil"]
NoLast == [id |-> 0, attempts |-> 0, sleeps |-> 0, first |-> "nil", result |-> "none"]
NoSend == [res |-> "none", before |-> 0, after |-> 0]

VARIABLES
    \* ---- File (queue-based aggregator), part_000:24-40
    linesLimit,     \* a.linesLimit
    compress,       \* a.compress
    bufCh,          \* a.bufCh: the blocks queued, oldest first
    bufClosed,      \* whether a.bufCh is closed
    tmp,            \* a.tmp (with a.gz): the active segment
    lines,          \* a.lines
    size,           \* a.size
    rpc,            \* where the reader goroutine is
    wpc,            \* where each Write caller is
    wblk,           \* the block each Write caller is sending
    epc,            \* where each Exit caller is
    nextId,         \* blocks written so far + 1
    nextSeg,        \* temp files created so far + 1
    \* ---- AwsS3 submission queue, part_000:332
    fileCh,         \* p.fileCh: the files queued, oldest first
    fileChClosed,   \* whether p.fileCh is closed
    \* ---- AwsS3 (retrying sink), part_000:322-335
    bytesChClosed,  \* whether p.bytesCh is closed
    listening,      \* whether New started listen() (the configuration loaded)
    spc,            \* where the file worker of listen() is
    cur,            \* the file sendFile is processing
    retry,          \* sendFile's retry counter
    bpc,            \* where the bytes worker of listen() is
    lpc,            \* where listen() itself is
    xpc,            \* where each Exit caller is
    onDisk,         \* ids of the submitted files that exist on disk
    \* ---- lifecycle manager, main.go:23-28
    regOut,         \* loaded.Output: name -> index into sinks (0: absent)
    regIn,          \* loaded.Input: name -> index into prods (0: absent)
    sinks,          \* the AwsS3 instances constructed so far
    prods,          \* the Cmd instances (each with its File) constructed so far
    mpc,            \* where each of the two goroutines is
    mmode,          \* what its finishLoaded() was called from
    mgen,           \* the number of the reload() it runs
    mconf,          \* the configuration its reload() decoded
    mtodo,          \* the keys its Range or its load loop has still to visit
    mdel,           \* the key its Range callback has still to Delete ("": none)
    exits,          \* the goroutines finishLoaded started to call Exit()
    gens,           \* reload() calls so far
    hups,           \* SIGHUP signals received so far
    \* ---- Cmd (command runner), part_000:205-215
    exiting,        \* c.exiting
    cmd,            \* c.cmd: the child listen() stored last (0: nil)
    procs,          \* the child processes spawned so far
    cpc,            \* where listen() is
    lcmd,           \* listen()'s local cmd: the child it started last
    cxpc,           \* where each caller of Cmd.Exit is
    cxproc,         \* its local proc (0: nil)
    spawns,         \* cmd.Start() calls so far
    spawnFailed,    \* whether a cmd.Start() returned an error
    \* ---- File (synchronous aggregator), plugins/aggregator/file/file.go:24-39;
    \*      its linesLimit, compress, tmp, lines and size are the variables above
    flushing,       \* a.flushing
    buf,            \* a.buf: the blocks buffered in the bufio.Writer
    bufTo,          \* what a.buf writes to: "discard" (ioutil.Discard) or "tmp"
    discarded,      \* ids of the blocks that went to ioutil.Discard or were reset away
    ypc,            \* where each caller of Write or Exit is
    yblk,           \* the block a Write caller passes
    ftmp,           \* Flush's local tmp
    fold,           \* Flush's local oldTmp
    rejected,       \* ids of the blocks whose Write returned the "Flushing..." error
    preExit,        \* ids of the blocks whose Write had returned nil when Exit was called
    \* ---- the process
    crash,          \* "none", or the panic that ended the process
    \* ---- history (what happened, for the properties)
    returned,       \* ids of the blocks whose Write returned (len(b), nil)
    handoffs,       \* the SendFile calls the aggregator made, in order
    crossings,      \* how often a.lines reached a.linesLimit after a block
    stat,           \* put attempts and retry delays for cur, and its first error
    last,           \* the same for the file sendFile finished last, and how
    lastSend,       \* the last SendFile call: result, queue length before, after
    accepted,       \* ids of the files for which a client's SendFile returned nil
    processed       \* the files sendFile has returned for, with how it ended

aggVars == << linesLimit, compress, bufCh, bufClosed, tmp, lines, size, rpc,
              wpc, wblk, epc, nextId, nextSeg, returned, handoffs, crossings >>

chanVars == << fileCh, fileChClosed >>

sinkVars == << bytesChClosed, listening, spc, cur, retry, bpc, lpc, xpc, onDisk,
               stat, last, lastSend, accepted, processed >>

mainVars == << regOut, regIn, sinks, prods, mpc, mmode, mgen, mconf, mtodo,
               mdel, exits, gens, hups >>

syncVars == << flushing, buf, bufTo, discarded, ypc, yblk, ftmp, fold, rejected, preExit >>

cmdVars == << exiting, cmd, procs, cpc, lcmd, cxpc, cxproc, spawns, spawnFailed >>

vars == << aggVars, chanVars, sinkVars, mainVars, cmdVars, syncVars, crash >>

\* ------------------------------------------------------------ aggregator

\* New, part_000:58-65: an unset (zero) lineslimit becomes defaultLimitLines.
NewLinesLimit(cfg) == IF cfg = 0 THEN defaultLimitLines ELSE cfg

\* main, main.go:30-34: empty registries, main() about to call reload(), the
\* signal goroutine waiting on sigs.
MainNew ==
    /\ regOut = [n \in OutNames |-> 0]
    /\ regIn = [n \in InNames |-> 0]
    /\ sinks = << >>
    /\ prods = << >>
    /\ mpc = [t \in Threads |-> IF t = "main" THEN "start" ELSE "idle"]
    /\ mmode = [t \in Threads |-> "none"]
    /\ mgen = [t \in Threads |-> 0]
    /\ mconf = [t \in Threads |-> CHOOSE c \in Configs : c.outs = {}]
    /\ mtodo = [t \in Threads |-> {}]
    /\ mdel = [t \in Threads |-> ""]
    /\ exits = {}
    /\ gens = 0
    /\ hups = 0

\* reset, part_000:124-137: a new temp file, and a gzip writer on it when
\* a.compress.
NewTmp(id) == [id |-> id, data |-> << >>, gz |-> IF compress THEN "open" ELSE "none"]

\* flush, part_000:102-107: a.gz.Close() when there is a gzip writer.
Sealed(f) == [f EXCEPT !.gz = IF f.gz = "none" THEN "none" ELSE "closed"]

\* AwsS3.SendFile, part_000:424-432: a select with a default branch.  A send
\* on a closed channel panics, a send on a channel with room enqueues, and
\* otherwise the default branch returns the error.
SendFileResult(q, closed) ==
    IF closed THEN "panic"
    ELSE IF Len(q) < fileChSize THEN "nil"
    ELSE "Files channel full"

\* The rotation test as "more than the limit".
CrossedLimitStrict(l) == l > linesLimit

\* reader, part_000:91: the rotation test.
CrossedLimit(l) == l >= linesLimit

\* A queue that takes one block more than its capacity.
CanSendOneMore(q) == Len(q) <= defaultBufSize

\* File.Write, part_000:150: whether the send on a.bufCh can proceed.
CanSend(q) == Len(q) < defaultBufSize

\* New, part_000:42-70: the aggregator as New returns it, from the
\* configuration's lineslimit and compress.
AggNew(cfgLimit, cfgCompress) ==
    /\ linesLimit = NewLinesLimit(cfgLimit)
    /\ compress = cfgCompress
    /\ bufCh = << >>
    /\ bufClosed = FALSE
    /\ tmp = [id |-> 0, data |-> << >>, gz |-> "none"]
    /\ lines = 0
    /\ size = 0
    /\ rpc = "start"
    /\ wpc = [w \in Writers |-> "idle"]
    /\ wblk = [w \in Writers |-> NoBlock]
    /\ epc = [e \in Exiters |-> "idle"]
    /\ nextId = 1
    /\ nextSeg = 1
    /\ returned = {}
    /\ handoffs = << >>
    /\ crossings = 0

\* awsS3.New, part_000:343: p.fileCh, open and empty.
ChanNew ==
    /\ fileCh = << >>
    /\ fileChClosed = FALSE

\* awsS3.New, part_000:341-346, :382-396: open queues, and, when the
\* provider configuration loaded (ok), listen() started with its two workers.
SinkNew(ok) ==
    /\ bytesChClosed = FALSE
    /\ listening = ok
    /\ spc = IF ok THEN "recv" ELSE "off"
    /\ cur = NoFile
    /\ retry = 0
    /\ bpc = IF ok THEN "recv" ELSE "off"
    /\ lpc = IF ok THEN "wait" ELSE "off"
    /\ xpc = [x \in SinkExiters |-> "idle"]
    /\ onDisk = {}
    /\ stat = NoStat
    /\ last = NoLast
    /\ lastSend = NoSend
    /\ accepted = {}
    /\ processed = {}

\* cmd.New, part_000:183-203: no child yet, the flag unset, and listen()
\* started at the top of its loop.
CmdNew ==
    /\ exiting = FALSE
    /\ cmd = 0
    /\ procs = << >>
    /\ cpc = "check"
    /\ lcmd = 0
    /\ cxpc = [e \in Exiters |-> "idle"]
    /\ cxproc = [e \in Exiters |-> 0]
    /\ spawns = 0
    /\ spawnFailed = FALSE

\* file.New, file.go:41-66: a bufio.Writer on ioutil.Discard, no temp file,
\* the flag clear.
SyncNew ==
    /\ flushing = 0
    /\ buf = << >>
    /\ bufTo = "discard"
    /\ discarded = {}
    /\ ypc = [t \in SyncTasks |-> "idle"]
    /\ yblk = [t \in SyncTasks |-> NoBlock]
    /\ ftmp = [t \in SyncTasks |-> NoFile]
    /\ fold = [t \in SyncTasks |-> NoFile]
    /\ rejected = {}
    /\ preExit = {}

\* reader, part_000:77: the first reset() of the goroutine New started.
ReaderStart ==
    /\ crash = "none"
    /\ rpc = "start"
    /\ tmp' = NewTmp(nextSeg)
    /\ nextSeg' = nextSeg + 1
    /\ lines' = 0
    /\ size' = 0
    /\ rpc' = "recv"
    /\ UNCHANGED << linesLimit, compress, bufCh, bufClosed, wpc, wblk, epc,
                    nextId, returned, handoffs, crossings, chanVars, sinkVars, mainVars, cmdVars, syncVars, crash >>

\* reader, part_000:79-91: receive one block, write it to the segment, count
\* its newlines and bytes, and test the limit.
ReaderRecv ==
    /\ crash = "none"
    /\ rpc = "recv"
    /\ bufCh # << >>
    /\ LET b == Head(bufCh) IN
        /\ bufCh' = Tail(bufCh)
        /\ tmp' = [tmp EXCEPT !.data = Append(@, b.id)]
        /\ lines' = lines + b.nl
        /\ size' = size + b.len
        /\ rpc' = IF CrossedLimit(lines + b.nl) THEN "rotate" ELSE "recv"
        /\ crossings' = IF CrossedLimit(lines + b.nl) THEN crossings + 1 ELSE crossings
    /\ UNCHANGED << linesLimit, compress, bufClosed, wpc, wblk, epc, nextId,
                    nextSeg, returned, handoffs, chanVars, sinkVars, mainVars, cmdVars, syncVars, crash >>

\* reader, part_000:92-93: flush() hands the sealed segment to the sink and
\* drops the error SendFile returns; reset() opens a new segment and zeroes
\* the counters.
ReaderRotate ==
    /\ crash = "none"
    /\ rpc = "rotate"
    /\ LET f == Sealed(tmp)
           res == SendFileResult(fileCh, fileChClosed) IN
        IF res = "panic"
        THEN /\ crash' = "SendFile: send on closed channel"
             /\ UNCHANGED << aggVars, chanVars, sinkVars, mainVars, cmdVars, syncVars >>
        ELSE /\ fileCh' = IF res = "nil" THEN Append(fileCh, f) ELSE fileCh
             /\ handoffs' = Append(handoffs, [by |-> "writer", seg |-> f.id,
                                              data |-> f.data, res |-> res])
             /\ tmp' = NewTmp(nextSeg)
             /\ nextSeg' = nextSeg + 1
             /\ lines' = 0
             /\ size' = 0
             /\ rpc' = "recv"
             /\ UNCHANGED << linesLimit, compress, bufCh, bufClosed, wpc, wblk,
                             epc, nextId, returned, crossings, fileChClosed, sinkVars, mainVars, cmdVars, syncVars, crash >>

\* reader, part_000:79, :97: the range loop ends when a.bufCh is closed and
\* empty; the goroutine then offers a value on the unbuffered a.done.
ReaderEnd ==
    /\ crash = "none"
    /\ rpc = "recv"
    /\ bufCh = << >>
    /\ bufClosed
    /\ rpc' = "done"
    /\ UNCHANGED << linesLimit, compress, bufCh, bufClosed, tmp, lines, size,
                    wpc, wblk, epc, nextId, nextSeg, returned, handoffs,
                    crossings, chanVars, sinkVars, mainVars, cmdVars, syncVars, crash >>

\* File.Write, part_000:146-149: the caller copies b into a pooled buffer.
WriteCall(w, s) ==
    /\ crash = "none"
    /\ wpc[w] = "idle"
    /\ nextId <= MaxWrites
    /\ wblk' = [wblk EXCEPT ![w] = [id |-> nextId, nl |-> s.nl, len |-> s.len]]
    /\ nextId' = nextId + 1
    /\ wpc' = [wpc EXCEPT ![w] = "send"]
    /\ UNCHANGED << linesLimit, compress, bufCh, bufClosed, tmp, lines, size,
                    rpc, epc, nextSeg, returned, handoffs, crossings,
                    chanVars, sinkVars, mainVars, cmdVars, syncVars, crash >>

\* File.Write, part_000:150-151: a.bufCh <- n, then return len(b), nil.  The
\* send blocks while the queue is full and panics when the queue is closed.
WriteSend(w) ==
    /\ crash = "none"
    /\ wpc[w] = "send"
    /\ IF bufClosed
       THEN /\ crash' = "Write: send on closed channel"
            /\ UNCHANGED << aggVars, chanVars, sinkVars, mainVars, cmdVars, syncVars >>
       ELSE /\ CanSend(bufCh)
            /\ bufCh' = Append(bufCh, wblk[w])
            /\ returned' = returned \cup { wblk[w].id }
            /\ wpc' = [wpc EXCEPT ![w] = "idle"]
            /\ UNCHANGED << linesLimit, compress, bufClosed, tmp, lines, size,
                            rpc, wblk, epc, nextId, nextSeg, handoffs,
                            crossings, chanVars, sinkVars, mainVars, cmdVars, syncVars, crash >>

\* File.Exit, part_000:158: close(a.bufCh); closing a closed channel panics.
ExitClose(e) ==
    /\ crash = "none"
    /\ epc[e] = "idle"
    /\ IF bufClosed
       THEN /\ crash' = "Exit: close of closed channel"
            /\ UNCHANGED << aggVars, chanVars, sinkVars, mainVars, cmdVars, syncVars >>
       ELSE /\ bufClosed' = TRUE
            /\ epc' = [epc EXCEPT ![e] = "wait"]
            /\ UNCHANGED << linesLimit, compress, bufCh, tmp, lines, size, rpc,
                            wpc, wblk, nextId, nextSeg, returned, handoffs,
                            crossings, chanVars, sinkVars, mainVars, cmdVars, syncVars, crash >>

\* File.Exit, part_000:159 with reader, part_000:97: the rendezvous on a.done.
ExitDone(e) ==
    /\ crash = "none"
    /\ epc[e] = "wait"
    /\ rpc = "done"
    /\ rpc' = "end"
    /\ epc' = [epc EXCEPT ![e] = "flush"]
    /\ UNCHANGED << linesLimit, compress, bufCh, bufClosed, tmp, lines, size,
                    wpc, wblk, nextId, nextSeg, returned, handoffs, crossings,
                    chanVars, sinkVars, mainVars, cmdVars, syncVars, crash >>

\* File.Exit, part_000:160-162: the final flush(), whose error is dropped,
\* then return.
ExitFlush(e) ==
    /\ crash = "none"
    /\ epc[e] = "flush"
    /\ LET f == Sealed(tmp)
           res == SendFileResult(fileCh, fileChClosed) IN
        IF res = "panic"
        THEN /\ crash' = "SendFile: send on closed channel"
             /\ UNCHANGED << aggVars, chanVars, sinkVars, mainVars, cmdVars, syncVars >>
        ELSE /\ fileCh' = IF res = "nil" THEN Append(fileCh, f) ELSE fileCh
             /\ handoffs' = Append(handoffs, [by |-> "exit", seg |-> f.id,
                                              data |-> f.data, res |-> res])
             /\ tmp' = f
             /\ epc' = [epc EXCEPT ![e] = "ret"]
             /\ UNCHANGED << linesLimit, compress, bufCh, bufClosed, lines, size,
                             rpc, wpc, wblk, nextId, nextSeg, returned,
                             crossings, fileChClosed, sinkVars, mainVars, cmdVars, syncVars, crash >>

\* AwsS3.listen, part_000:405-408: the upload worker takes the oldest queued
\* file and processes it (sendFile).
SinkTake ==
    /\ crash = "none"
    /\ fileCh # << >>
    /\ fileCh' = Tail(fileCh)
    /\ UNCHANGED << aggVars, fileChClosed, sinkVars, mainVars, cmdVars, syncVars, crash >>

AggNext ==
    \/ ReaderStart
    \/ ReaderRecv
    \/ ReaderRotate
    \/ ReaderEnd
    \/ \E w \in Writers, s \in BlockShapes : WriteCall(w, s)
    \/ \E w \in Writers : WriteSend(w)
    \/ \E e \in Exiters : ExitClose(e)
    \/ \E e \in Exiters : ExitDone(e)
    \/ \E e \in Exiters : ExitFlush(e)
    \/ SinkTake

\* The queue-based aggregator with its callers and the bound sink's queue.
InitAgg ==
    /\ \E c \in 0..MaxLinesLimit, z \in BOOLEAN : AggNew(c, z)
    /\ ChanNew
    /\ SinkNew(TRUE)
    /\ MainNew
    /\ CmdNew
    /\ SyncNew
    /\ crash = "none"

SpecAgg == InitAgg /\ [][AggNext]_vars

\* ------------------------------------------------------------------ sink

\* A classification that knows only AccessDenied.
IsFatalAccessDeniedOnly(err) == err = errAccessDenied

\* sendFile, part_000:472-477: the errors that are not retried.
IsFatal(err) == err \in {errAccessDenied, errSignatureDoesNotMatch}

\* A sendFile that removes the file however the upload ended.
RemovesAlways(result) == TRUE

\* sendFile, part_000:463-467, :490: os.Remove is reached only through the
\* break that follows a put without error.
Removes(result) == result = "sent"

\* A listen() that waits for the bytes worker only.
SinkListenWaitBytesOnly ==
    /\ crash = "none"
    /\ lpc = "wait"
    /\ bpc = "end"
    /\ lpc' = "done"
    /\ UNCHANGED << aggVars, chanVars, bytesChClosed, listening, spc, cur, retry,
                    bpc, xpc, onDisk, stat, last, lastSend, accepted, processed,
                    mainVars, cmdVars, syncVars, crash >>

\* The retry limit test as "more than maxRetry".
RetryExhaustedLate(r) == r > maxRetry

\* sendFile, part_000:481: the retry limit test.
RetryExhausted(r) == r >= maxRetry

\* A client makes a temp file and calls AwsS3.SendFile, part_000:424-432.
ClientSendFile ==
    /\ crash = "none"
    /\ nextSeg <= MaxFiles
    /\ LET f == [id |-> nextSeg, data |-> << >>, gz |-> "none"]
           res == SendFileResult(fileCh, fileChClosed) IN
        /\ nextSeg' = nextSeg + 1
        /\ onDisk' = onDisk \cup {f.id}
        /\ IF res = "panic"
           THEN /\ crash' = "SendFile: send on closed channel"
                /\ UNCHANGED << fileCh, lastSend, accepted >>
           ELSE /\ fileCh' = IF res = "nil" THEN Append(fileCh, f) ELSE fileCh
                /\ accepted' = IF res = "nil" THEN accepted \cup {f.id} ELSE accepted
                /\ lastSend' = [res |-> res, before |-> Len(fileCh),
                                after |-> Len(fileCh')]
                /\ UNCHANGED crash
    /\ UNCHANGED << linesLimit, compress, bufCh, bufClosed, tmp, lines, size, rpc,
                    wpc, wblk, epc, nextId, returned, handoffs, crossings,
                    fileChClosed, bytesChClosed, listening, spc, cur, retry, bpc,
                    lpc, xpc, stat, last, processed, mainVars, cmdVars, syncVars >>

\* listen, part_000:405-407, and sendFile, part_000:460: the file worker
\* takes the oldest queued file and starts sendFile with retry = 0.
SinkRecv ==
    /\ crash = "none"
    /\ spc = "recv"
    /\ fileCh # << >>
    /\ cur' = Head(fileCh)
    /\ fileCh' = Tail(fileCh)
    /\ retry' = 0
    /\ stat' = NoStat
    /\ spc' = "put"
    /\ UNCHANGED << aggVars, fileChClosed, bytesChClosed, listening, bpc, lpc, xpc,
                    onDisk, last, lastSend, accepted, processed, mainVars, cmdVars, syncVars, crash >>

\* sendFile, part_000:461-492: one turn of the retry loop.  A put that
\* succeeds removes the file; a fatal error returns at once; any other error
\* counts a retry and either gives up at maxRetry or sleeps sleepRetry and
\* tries again.
SinkPut(err) ==
    /\ crash = "none"
    /\ spc = "put"
    /\ LET st == [stat EXCEPT !.attempts = @ + 1,
                              !.first = IF stat.attempts = 0 THEN err ELSE @]
           done(result, s) == /\ last' = [id |-> cur.id, attempts |-> s.attempts,
                                          sleeps |-> s.sleeps, first |-> s.first,
                                          result |-> result]
                              /\ onDisk' = IF Removes(result) THEN onDisk \ {cur.id}
                                                              ELSE onDisk
                              /\ processed' = processed \cup
                                                 { [id |-> cur.id, result |-> result] }
                              /\ stat' = NoStat
                              /\ cur' = NoFile
                              /\ spc' = "recv"
       IN
        IF err = "nil"
        THEN /\ done("sent", st)
             /\ UNCHANGED retry
        ELSE IF IsFatal(err)
        THEN /\ done("fatal", st)
             /\ UNCHANGED retry
        ELSE IF RetryExhausted(retry + 1)
        THEN /\ retry' = retry + 1
             /\ done("max retry", st)
        ELSE /\ retry' = retry + 1
             /\ stat' = [st EXCEPT !.sleeps = @ + 1]
             /\ UNCHANGED << cur, spc, last, onDisk, processed >>
    /\ UNCHANGED << aggVars, chanVars, bytesChClosed, listening, bpc, lpc, xpc,
                    lastSend, accepted, mainVars, cmdVars, syncVars, crash >>

\* listen, part_000:404-408: the range loop of the file worker ends when
\* p.fileCh is closed and empty.
SinkFileWorkerEnd ==
    /\ crash = "none"
    /\ spc = "recv"
    /\ fileCh = << >>
    /\ fileChClosed
    /\ spc' = "end"
    /\ UNCHANGED << aggVars, chanVars, bytesChClosed, listening, cur, retry, bpc,
                    lpc, xpc, onDisk, stat, last, lastSend, accepted, processed, mainVars, cmdVars, syncVars, crash >>

\* listen, part_000:413-416: the bytes worker; nothing ever sends on
\* p.bytesCh (SendBytes, part_000:520-523, does nothing), so its range loop
\* only ends, when the channel is closed.
SinkBytesWorkerEnd ==
    /\ crash = "none"
    /\ bpc = "recv"
    /\ bytesChClosed
    /\ bpc' = "end"
    /\ UNCHANGED << aggVars, chanVars, bytesChClosed, listening, spc, cur, retry,
                    lpc, xpc, onDisk, stat, last, lastSend, accepted, processed, mainVars, cmdVars, syncVars, crash >>

\* listen, part_000:419-421: wg.Wait() returns when both workers have ended;
\* listen then offers a value on the unbuffered p.done.
SinkListenWait ==
    /\ crash = "none"
    /\ lpc = "wait"
    /\ spc = "end"
    /\ bpc = "end"
    /\ lpc' = "done"
    /\ UNCHANGED << aggVars, chanVars, bytesChClosed, listening, spc, cur, retry,
                    bpc, xpc, onDisk, stat, last, lastSend, accepted, processed, mainVars, cmdVars, syncVars, crash >>

\* AwsS3.Exit, part_000:527-539: close(p.fileCh), then close(p.bytesCh);
\* both fields are set by New and never nil.  Closing a closed channel panics.
SinkExitClose(x) ==
    /\ crash = "none"
    /\ xpc[x] = "idle"
    /\ IF fileChClosed
       THEN /\ crash' = "AwsS3.Exit: close of closed channel"
            /\ UNCHANGED << fileChClosed, bytesChClosed, xpc >>
       ELSE /\ fileChClosed' = TRUE
            /\ bytesChClosed' = TRUE
            /\ xpc' = [xpc EXCEPT ![x] = "wait"]
            /\ UNCHANGED crash
    /\ UNCHANGED << aggVars, fileCh, listening, spc, cur, retry, bpc, lpc, onDisk,
                    stat, last, lastSend, accepted, processed, mainVars, cmdVars, syncVars >>

\* AwsS3.Exit, part_000:541-543, with listen, part_000:421: the rendezvous on
\* p.done, then return.
SinkExitDone(x) ==
    /\ crash = "none"
    /\ xpc[x] = "wait"
    /\ lpc = "done"
    /\ lpc' = "end"
    /\ xpc' = [xpc EXCEPT ![x] = "ret"]
    /\ UNCHANGED << aggVars, chanVars, bytesChClosed, listening, spc, cur, retry,
                    bpc, onDisk, stat, last, lastSend, accepted, processed, mainVars, cmdVars, syncVars, crash >>

SinkNext ==
    \/ ClientSendFile
    \/ SinkRecv
    \/ \E err \in PutResults : SinkPut(err)
    \/ SinkFileWorkerEnd
    \/ SinkBytesWorkerEnd
    \/ SinkListenWait
    \/ \E x \in SinkExiters : SinkExitClose(x)
    \/ \E x \in SinkExiters : SinkExitDone(x)

\* The sink alone, with clients that submit files and callers of Exit.
InitSink ==
    /\ AggNew(0, FALSE)
    /\ ChanNew
    /\ MainNew
    /\ \E ok \in BOOLEAN : SinkNew(ok)
    /\ CmdNew
    /\ SyncNew
    /\ crash = "none"

SpecSink == InitSink /\ [][SinkNext]_vars

\* ----------------------------------------------------- lifecycle manager

\* The instances are leaves here: a Cmd with its File is "live", "exiting"
\* (Cmd.Exit has set the exiting flag) or "exited" (File.Exit has made its
\* final handoff and returned); an AwsS3 is "open", "closed" (Exit has closed
\* its queues) or "exited" (Exit has returned).  The names of outputs and
\* inputs differ, so the Input.Delete calls of main.go:75 and :86 find nothing.

OtherVars == << aggVars, chanVars, sinkVars, cmdVars, syncVars >>

\* The goroutines finishLoaded started for goroutine t that wg still counts.
Pending(t) == { g \in exits : g.by = t }

\* reload, main.go:92-99, and signals, main.go:44-49: finishLoaded() begins
\* its Range over loaded.Input.
BeginFinishLoaded(t, mode) ==
    /\ mpc' = [mpc EXCEPT ![t] = "fl_in"]
    /\ mmode' = [mmode EXCEPT ![t] = mode]
    /\ mtodo' = [mtodo EXCEPT ![t] = { k \in InNames : regIn[k] # 0 }]

\* main, main.go:35: main() calls reload().
MainReload ==
    /\ crash = "none"
    /\ mpc["main"] = "start"
    /\ gens' = gens + 1
    /\ mgen' = [mgen EXCEPT !["main"] = gens + 1]
    /\ BeginFinishLoaded("main", "reload")
    /\ UNCHANGED << regOut, regIn, sinks, prods, mconf, mdel, exits, hups,
                    OtherVars, crash >>

\* signals, main.go:44-47: SIGHUP, reload().
SigHup ==
    /\ crash = "none"
    /\ mpc["sig"] = "idle"
    /\ hups < MaxSighups
    /\ hups' = hups + 1
    /\ gens' = gens + 1
    /\ mgen' = [mgen EXCEPT !["sig"] = gens + 1]
    /\ BeginFinishLoaded("sig", "reload")
    /\ UNCHANGED << regOut, regIn, sinks, prods, mconf, mdel, exits,
                    OtherVars, crash >>

\* signals, main.go:48-49: SIGTERM or interrupt, finishLoaded().
SigTerm ==
    /\ crash = "none"
    /\ mpc["sig"] = "idle"
    /\ BeginFinishLoaded("sig", "term")
    /\ UNCHANGED << regOut, regIn, sinks, prods, mgen, mconf, mdel, exits, gens,
                    hups, OtherVars, crash >>

\* finishLoaded, main.go:63-68: the Range callback for one input: start a
\* goroutine that calls its Exit().  A key deleted since the Range began is
\* not visited.
FLRangeInput(t, k) ==
    /\ crash = "none"
    /\ mpc[t] = "fl_in"
    /\ mdel[t] = ""
    /\ k \in mtodo[t]
    /\ mtodo' = [mtodo EXCEPT ![t] = @ \ {k}]
    /\ IF regIn[k] # 0
       THEN /\ exits' = exits \cup { [by |-> t, kind |-> "in", id |-> regIn[k],
                                      pc |-> "start"] }
            /\ mdel' = [mdel EXCEPT ![t] = k]
       ELSE UNCHANGED << exits, mdel >>
    /\ UNCHANGED << regOut, regIn, sinks, prods, mpc, mmode, mgen, mconf, gens,
                    hups, OtherVars, crash >>

\* finishLoaded, main.go:69: loaded.Input.Delete(k), whatever k holds by now.
FLDeleteInput(t) ==
    /\ crash = "none"
    /\ mpc[t] = "fl_in"
    /\ mdel[t] # ""
    /\ regIn' = [regIn EXCEPT ![mdel[t]] = 0]
    /\ mdel' = [mdel EXCEPT ![t] = ""]
    /\ UNCHANGED << regOut, sinks, prods, mpc, mmode, mgen, mconf, mtodo, exits,
                    gens, hups, OtherVars, crash >>

\* finishLoaded, main.go:72-80: wg.Wait() returns when every Exit() it
\* started has returned; the Range over loaded.Output begins.
FLWaitInputs(t) ==
    /\ crash = "none"
    /\ mpc[t] = "fl_in"
    /\ mtodo[t] = {}
    /\ mdel[t] = ""
    /\ Pending(t) = {}
    /\ mpc' = [mpc EXCEPT ![t] = "fl_out"]
    /\ mtodo' = [mtodo EXCEPT ![t] = { k \in OutNames : regOut[k] # 0 }]
    /\ UNCHANGED << regOut, regIn, sinks, prods, mmode, mgen, mconf, mdel, exits,
                    gens, hups, OtherVars, crash >>

\* finishLoaded, main.go:80-88: the Range callback for one output: start a
\* goroutine that calls its Exit().  The output stays in loaded.Output (the
\* callback deletes k from loaded.Input).
FLRangeOutput(t, k) ==
    /\ crash = "none"
    /\ mpc[t] = "fl_out"
    /\ k \in mtodo[t]
    /\ mtodo' = [mtodo EXCEPT ![t] = @ \ {k}]
    /\ exits' = IF regOut[k] # 0
                THEN exits \cup { [by |-> t, kind |-> "out", id |-> regOut[k],
                                   pc |-> "start"] }
                ELSE exits
    /\ UNCHANGED << regOut, regIn, sinks, prods, mpc, mmode, mgen, mconf, mdel,
                    gens, hups, OtherVars, crash >>

\* finishLoaded, main.go:89, then reload, main.go:101-121: the second
\* wg.Wait() returns, reload() decodes the configuration and starts loading
\* the outputs.
FLReturnToReload(t, c) ==
    /\ crash = "none"
    /\ mpc[t] = "fl_out"
    /\ mmode[t] = "reload"
    /\ mtodo[t] = {}
    /\ Pending(t) = {}
    /\ mconf' = [mconf EXCEPT ![t] = c]
    /\ mpc' = [mpc EXCEPT ![t] = "ld_out"]
    /\ mtodo' = [mtodo EXCEPT ![t] = c.outs]
    /\ UNCHANGED << regOut, regIn, sinks, prods, mmode, mgen, mdel, exits, gens,
                    hups, OtherVars, crash >>

\* finishLoaded, main.go:89, then signals, main.go:50-51: the second
\* wg.Wait() returns and the signal goroutine offers a value on done.
FLReturnToSignals(t) ==
    /\ crash = "none"
    /\ mpc[t] = "fl_out"
    /\ mmode[t] = "term"
    /\ mtodo[t] = {}
    /\ Pending(t) = {}
    /\ mpc' = [mpc EXCEPT ![t] = "send_done"]
    /\ UNCHANGED << regOut, regIn, sinks, prods, mmode, mgen, mconf, mtodo, mdel,
                    exits, gens, hups, OtherVars, crash >>

\* reload, main.go:111-120: one output's goroutine stores awsS3.New(name, c),
\* which returns an instance also when the provider configuration failed to
\* load (part_000:382-390); listen() runs only when it loaded (ok).
LoadOutput(t, k, ok) ==
    /\ crash = "none"
    /\ mpc[t] = "ld_out"
    /\ k \in mtodo[t]
    /\ mtodo' = [mtodo EXCEPT ![t] = @ \ {k}]
    /\ sinks' = Append(sinks, [gen |-> mgen[t], state |-> "open", ok |-> ok])
    /\ regOut' = [regOut EXCEPT ![k] = Len(sinks) + 1]
    /\ UNCHANGED << regIn, prods, mpc, mmode, mgen, mconf, mdel, exits, gens,
                    hups, OtherVars, crash >>

\* reload, main.go:121-129: wg.Wait(), the aggregator configurations are
\* stored, and the inputs start loading.
LoadOutputsWait(t) ==
    /\ crash = "none"
    /\ mpc[t] = "ld_out"
    /\ mtodo[t] = {}
    /\ mpc' = [mpc EXCEPT ![t] = "ld_in"]
    /\ mtodo' = [mtodo EXCEPT ![t] = mconf[t].ins]
    /\ UNCHANGED << regOut, regIn, sinks, prods, mmode, mgen, mconf, mdel, exits,
                    gens, hups, OtherVars, crash >>

\* reload, main.go:131-169: one input's goroutine resolves its output by name
\* in loaded.Output (whatever instance is stored there) and its aggregator
\* by name in loaded.Aggregator, returns when either is missing, and
\* otherwise stores cmd.New(name, in, newAggregator(..., o)), where
\* newAggregator (main.go:174-180) returns nil when the discriminator does
\* not match.
LoadInput(t, k, a) ==
    /\ crash = "none"
    /\ mpc[t] = "ld_in"
    /\ k \in mtodo[t]
    /\ mtodo' = [mtodo EXCEPT ![t] = @ \ {k}]
    /\ LET o == regOut[mconf[t].output[k]] IN
        IF o = 0 \/ a = "missing"
        THEN UNCHANGED << prods, regIn >>
        ELSE /\ prods' = Append(prods, [gen |-> mgen[t], out |-> o, state |-> "live",
                                        agg |-> a])
             /\ regIn' = [regIn EXCEPT ![k] = Len(prods) + 1]
    /\ UNCHANGED << regOut, sinks, mpc, mmode, mgen, mconf, mdel, exits, gens,
                    hups, OtherVars, crash >>

\* reload, main.go:171-172: wg.Wait() and return: main() goes on to <-done
\* (main.go:36), the signal goroutine to its next signal (main.go:43-44).
LoadInputsWait(t) ==
    /\ crash = "none"
    /\ mpc[t] = "ld_in"
    /\ mtodo[t] = {}
    /\ mpc' = [mpc EXCEPT ![t] = IF t = "main" THEN "wait_done" ELSE "idle"]
    /\ mmode' = [mmode EXCEPT ![t] = "none"]
    /\ UNCHANGED << regOut, regIn, sinks, prods, mgen, mconf, mtodo, mdel, exits,
                    gens, hups, OtherVars, crash >>

\* signals, main.go:51-52, with main, main.go:36-37: the rendezvous on done;
\* main() returns and the process ends.
ProcessExit ==
    /\ crash = "none"
    /\ mpc["sig"] = "send_done"
    /\ mpc["main"] = "wait_done"
    /\ mpc' = [t \in Threads |-> "exited"]
    /\ UNCHANGED << regOut, regIn, sinks, prods, mmode, mgen, mconf, mtodo, mdel,
                    exits, gens, hups, OtherVars, crash >>

\* Cmd.Exit, part_000:267-282: the first call sets the exiting flag, signals
\* the child and waits for listen() to return.
CmdExitBegin(g) ==
    /\ crash = "none"
    /\ g \in exits /\ g.kind = "in" /\ g.pc = "start"
    /\ prods[g.id].state = "live"
    /\ prods' = [prods EXCEPT ![g.id].state = "exiting"]
    /\ exits' = (exits \ {g}) \cup { [g EXCEPT !.pc = "agg"] }
    /\ UNCHANGED << regOut, regIn, sinks, mpc, mmode, mgen, mconf, mtodo, mdel,
                    gens, hups, OtherVars, crash >>

\* Cmd.Exit, part_000:267-282, called again: with a child process it waits
\* on c.done, which listen() feeds once, so that it may block forever (hang);
\* without one it goes straight on to the aggregator.
CmdExitAgain(g, hang) ==
    /\ crash = "none"
    /\ g \in exits /\ g.kind = "in" /\ g.pc = "start"
    /\ prods[g.id].state # "live"
    /\ exits' = (exits \ {g}) \cup { [g EXCEPT !.pc = IF hang THEN "hung" ELSE "agg"] }
    /\ UNCHANGED << regOut, regIn, sinks, prods, mpc, mmode, mgen, mconf, mtodo,
                    mdel, gens, hups, OtherVars, crash >>

\* Cmd.Exit, part_000:286, and File.Exit, part_000:154-163: the call panics
\* on a nil aggregator; otherwise close(a.bufCh), which panics on a closed
\* channel, the drain, and the final flush() into the bound sink's SendFile,
\* which panics when p.fileCh is closed.
CmdExitAggregator(g) ==
    /\ crash = "none"
    /\ g \in exits /\ g.kind = "in" /\ g.pc = "agg"
    /\ IF prods[g.id].agg = "nil"
       THEN /\ crash' = "Exit: nil pointer dereference"
            /\ UNCHANGED << prods, exits >>
       ELSE IF prods[g.id].state = "exited"
       THEN /\ crash' = "Exit: close of closed channel"
            /\ UNCHANGED << prods, exits >>
       ELSE IF sinks[prods[g.id].out].state # "open"
       THEN /\ crash' = "SendFile: send on closed channel"
            /\ UNCHANGED << prods, exits >>
       ELSE /\ prods' = [prods EXCEPT ![g.id].state = "exited"]
            /\ exits' = exits \ {g}
            /\ UNCHANGED crash
    /\ UNCHANGED << regOut, regIn, sinks, mpc, mmode, mgen, mconf, mtodo, mdel,
                    gens, hups, OtherVars >>

\* AwsS3.Exit, part_000:525-539: close the queues; closing a closed channel
\* panics.
AwsExitClose(g) ==
    /\ crash = "none"
    /\ g \in exits /\ g.kind = "out" /\ g.pc = "start"
    /\ IF sinks[g.id].state # "open"
       THEN /\ crash' = "AwsS3.Exit: close of closed channel"
            /\ UNCHANGED << sinks, exits >>
       ELSE /\ sinks' = [sinks EXCEPT ![g.id].state = "closed"]
            /\ exits' = (exits \ {g}) \cup { [g EXCEPT !.pc = "wait"] }
            /\ UNCHANGED crash
    /\ UNCHANGED << regOut, regIn, prods, mpc, mmode, mgen, mconf, mtodo, mdel,
                    gens, hups, OtherVars >>

\* AwsS3.Exit, part_000:541-544: the workers have drained the queue, listen()
\* feeds p.done and Exit() returns; without a listen() nothing feeds p.done.
AwsExitReturn(g) ==
    /\ crash = "none"
    /\ g \in exits /\ g.kind = "out" /\ g.pc = "wait"
    /\ sinks[g.id].ok
    /\ sinks' = [sinks EXCEPT ![g.id].state = "exited"]
    /\ exits' = exits \ {g}
    /\ UNCHANGED << regOut, regIn, prods, mpc, mmode, mgen, mconf, mtodo, mdel,
                    gens, hups, OtherVars, crash >>

\* reader, part_000:91-93: a running producer's aggregator rotates and calls
\* the bound sink's SendFile, which panics when p.fileCh is closed.
ProducerHandoff(i) ==
    /\ crash = "none"
    /\ i \in 1..Len(prods)
    /\ prods[i].state = "live"
    /\ prods[i].agg = "file"
    /\ crash' = IF sinks[prods[i].out].state # "open"
                THEN "SendFile: send on closed channel"
                ELSE crash
    /\ UNCHANGED << mainVars, OtherVars >>

MainNext ==
    \/ MainReload
    \/ SigHup
    \/ SigTerm
    \/ \E t \in Threads, k \in InNames : FLRangeInput(t, k)
    \/ \E t \in Threads : FLDeleteInput(t)
    \/ \E t \in Threads : FLWaitInputs(t)
    \/ \E t \in Threads, k \in OutNames : FLRangeOutput(t, k)
    \/ \E t \in Threads, c \in Configs : FLReturnToReload(t, c)
    \/ \E t \in Threads : FLReturnToSignals(t)
    \/ \E t \in Threads, k \in OutNames, ok \in BOOLEAN : LoadOutput(t, k, ok)
    \/ \E t \in Threads : LoadOutputsWait(t)
    \/ \E t \in Threads, k \in InNames, a \in AggResolutions : LoadInput(t, k, a)
    \/ \E t \in Threads : LoadInputsWait(t)
    \/ ProcessExit
    \/ \E g \in exits : CmdExitBegin(g)
    \/ \E g \in exits, hang \in BOOLEAN : CmdExitAgain(g, hang)
    \/ \E g \in exits : CmdExitAggregator(g)
    \/ \E g \in exits : AwsExitClose(g)
    \/ \E g \in exits : AwsExitReturn(g)
    \/ \E i \in 1..Len(prods) : ProducerHandoff(i)

InitMain ==
    /\ AggNew(0, FALSE)
    /\ ChanNew
    /\ SinkNew(TRUE)
    /\ MainNew
    /\ CmdNew
    /\ SyncNew
    /\ crash = "none"

\* The lifecycle manager with its instances as leaves.
SpecMain == InitMain /\ [][MainNext]_vars

\* -------------------------------------------------------- command runner

\* os/exec gives a child whose Stdout is not a file a pipe and one goroutine
\* that copies the pipe into c.aggregator (listen, part_000:245): the one
\* task that calls File.Write for this producer.
StdoutCopier == "w1"

\* A child process as cmd.Start() leaves it, part_000:247.
NewProc == [state |-> "running", signalled |-> FALSE, waited |-> FALSE]

\* listen, part_000:234-240: isExiting() at the top of the loop; then the
\* retry delay when a child was stored before.
ListenCheck ==
    /\ crash = "none"
    /\ cpc = "check"
    /\ cpc' = IF exiting THEN "defer" ELSE IF cmd # 0 THEN "sleep" ELSE "start"
    /\ UNCHANGED << exiting, cmd, procs, lcmd, cxpc, cxproc, spawns, spawnFailed,
                    aggVars, chanVars, sinkVars, mainVars, syncVars, crash >>

\* listen, part_000:239: time.Sleep(retry) ends.
ListenSleep ==
    /\ crash = "none"
    /\ cpc = "sleep"
    /\ cpc' = "start"
    /\ UNCHANGED << exiting, cmd, procs, lcmd, cxpc, cxproc, spawns, spawnFailed,
                    aggVars, chanVars, sinkVars, mainVars, syncVars, crash >>

\* listen, part_000:244-250: exec.Command and cmd.Start().  When the spawn
\* fails listen() returns, into its deferred send on c.done.
ListenStart(ok) ==
    /\ crash = "none"
    /\ cpc = "start"
    /\ spawns < MaxSpawns
    /\ spawns' = spawns + 1
    /\ IF ok
       THEN /\ procs' = Append(procs, NewProc)
            /\ lcmd' = Len(procs) + 1
            /\ cpc' = "store"
            /\ UNCHANGED spawnFailed
       ELSE /\ spawnFailed' = TRUE
            /\ cpc' = "defer"
            /\ UNCHANGED << procs, lcmd >>
    /\ UNCHANGED << exiting, cmd, cxpc, cxproc,
                    aggVars, chanVars, sinkVars, mainVars, syncVars, crash >>

\* listen, part_000:252-254: c.cmd = cmd, under the lock.
ListenStore ==
    /\ crash = "none"
    /\ cpc = "store"
    /\ cmd' = lcmd
    /\ cpc' = "started"
    /\ UNCHANGED << exiting, procs, lcmd, cxpc, cxproc, spawns, spawnFailed,
                    aggVars, chanVars, sinkVars, mainVars, syncVars, crash >>

\* listen, part_000:256-258: isExiting() after the spawn; when set, listen()
\* returns without waiting for the child it has just started.
ListenCheckStarted ==
    /\ crash = "none"
    /\ cpc = "started"
    /\ cpc' = IF exiting THEN "defer" ELSE "wait"
    /\ UNCHANGED << exiting, cmd, procs, lcmd, cxpc, cxproc, spawns, spawnFailed,
                    aggVars, chanVars, sinkVars, mainVars, syncVars, crash >>

\* listen, part_000:260-263: cmd.Wait() returns when the child has exited and
\* the copy of its output has ended; the loop starts again.
ListenWait ==
    /\ crash = "none"
    /\ cpc = "wait"
    /\ procs[lcmd].state = "exited"
    /\ wpc[StdoutCopier] = "idle"
    /\ procs' = [procs EXCEPT ![lcmd].waited = TRUE]
    /\ cpc' = "check"
    /\ UNCHANGED << exiting, cmd, lcmd, cxpc, cxproc, spawns, spawnFailed,
                    aggVars, chanVars, sinkVars, mainVars, syncVars, crash >>

\* A child process exits: by itself, or on the SIGTERM it was sent.
ChildExit(k) ==
    /\ crash = "none"
    /\ k \in 1..Len(procs)
    /\ procs[k].state = "running"
    /\ procs' = [procs EXCEPT ![k].state = "exited"]
    /\ UNCHANGED << exiting, cmd, cpc, lcmd, cxpc, cxproc, spawns, spawnFailed,
                    aggVars, chanVars, sinkVars, mainVars, syncVars, crash >>

\* The copy goroutine of a child nobody has waited for passes what the child
\* wrote to c.aggregator.Write (File.Write, part_000:146-149).
ChildWrite(s) ==
    /\ \E k \in 1..Len(procs) : ~procs[k].waited
    /\ WriteCall(StdoutCopier, s)

\* File.Write, part_000:150-151, in the copy goroutine.
ChildWriteSend == WriteSend(StdoutCopier)

\* Cmd.Exit, part_000:270-277: under the lock, set the flag and read c.cmd;
\* with no child stored the wait on c.done is skipped.
CmdExitFlag(e) ==
    /\ crash = "none"
    /\ cxpc[e] = "idle"
    /\ exiting' = TRUE
    /\ cxproc' = [cxproc EXCEPT ![e] = cmd]
    /\ cxpc' = [cxpc EXCEPT ![e] = IF cmd # 0 THEN "signal" ELSE "agg"]
    /\ UNCHANGED << cmd, procs, cpc, lcmd, spawns, spawnFailed,
                    aggVars, chanVars, sinkVars, mainVars, syncVars, crash >>

\* Cmd.Exit, part_000:279-280: proc.Signal(syscall.SIGTERM).
CmdExitSignal(e) ==
    /\ crash = "none"
    /\ cxpc[e] = "signal"
    /\ procs' = [procs EXCEPT ![cxproc[e]].signalled = TRUE]
    /\ cxpc' = [cxpc EXCEPT ![e] = "recv"]
    /\ UNCHANGED << exiting, cmd, cpc, lcmd, cxproc, spawns, spawnFailed,
                    aggVars, chanVars, sinkVars, mainVars, syncVars, crash >>

\* Cmd.Exit, part_000:281, with listen, part_000:228-230: the rendezvous on
\* the unbuffered c.done; listen() ends.
CmdExitRecv(e) ==
    /\ crash = "none"
    /\ cxpc[e] = "recv"
    /\ cpc = "defer"
    /\ cpc' = "end"
    /\ cxpc' = [cxpc EXCEPT ![e] = "agg"]
    /\ UNCHANGED << exiting, cmd, procs, lcmd, cxproc, spawns, spawnFailed,
                    aggVars, chanVars, sinkVars, mainVars, syncVars, crash >>

\* Cmd.Exit, part_000:286: c.aggregator.Exit(), File.Exit, part_000:158.
CmdExitFileClose(e) == cxpc[e] = "agg" /\ ExitClose(e)

\* File.Exit, part_000:159, inside Cmd.Exit.
CmdExitFileDone(e) == cxpc[e] = "agg" /\ ExitDone(e)

\* File.Exit, part_000:160-162, inside Cmd.Exit.
CmdExitFileFlush(e) == cxpc[e] = "agg" /\ ExitFlush(e)

\* Cmd.Exit, part_000:286-290: c.aggregator.Exit() has returned; return.
CmdExitReturn(e) ==
    /\ crash = "none"
    /\ cxpc[e] = "agg"
    /\ epc[e] = "ret"
    /\ cxpc' = [cxpc EXCEPT ![e] = "ret"]
    /\ UNCHANGED << exiting, cmd, procs, cpc, lcmd, cxproc, spawns, spawnFailed,
                    aggVars, chanVars, sinkVars, mainVars, syncVars, crash >>

CmdNext ==
    \/ ListenCheck
    \/ ListenSleep
    \/ \E ok \in BOOLEAN : ListenStart(ok)
    \/ ListenStore
    \/ ListenCheckStarted
    \/ ListenWait
    \/ \E k \in 1..MaxSpawns : ChildExit(k)
    \/ \E s \in BlockShapes : ChildWrite(s)
    \/ ChildWriteSend
    \/ \E e \in CmdExiters : CmdExitFlag(e)
    \/ \E e \in CmdExiters : CmdExitSignal(e)
    \/ \E e \in CmdExiters : CmdExitRecv(e)
    \/ \E e \in CmdExiters : CmdExitFileClose(e)
    \/ \E e \in CmdExiters : CmdExitFileDone(e)
    \/ \E e \in CmdExiters : CmdExitFileFlush(e)
    \/ \E e \in CmdExiters : CmdExitReturn(e)
    \/ ReaderStart
    \/ ReaderRecv
    \/ ReaderRotate
    \/ ReaderEnd
    \/ SinkTake

\* One command runner with its aggregator and the bound sink's queue.
InitCmd ==
    /\ \E c \in 0..MaxLinesLimit, z \in BOOLEAN : AggNew(c, z)
    /\ ChanNew
    /\ SinkNew(TRUE)
    /\ MainNew
    /\ CmdNew
    /\ SyncNew
    /\ crash = "none"

SpecCmd == InitCmd /\ [][CmdNext]_vars

\* The scheduler runs main(), the signal goroutine once a signal has woken
\* it, and the goroutines that call Exit(); a child sent SIGTERM exits and a
\* put attempt terminates, so that an Exit() that can return does.  Nothing
\* obliges a signal to arrive or a producer to rotate.
MainFairness ==
    /\ WF_vars(MainReload)
    /\ WF_vars(\E t \in Threads, k \in InNames : FLRangeInput(t, k))
    /\ WF_vars(\E t \in Threads : FLDeleteInput(t))
    /\ WF_vars(\E t \in Threads : FLWaitInputs(t))
    /\ WF_vars(\E t \in Threads, k \in OutNames : FLRangeOutput(t, k))
    /\ WF_vars(\E t \in Threads, c \in Configs : FLReturnToReload(t, c))
    /\ WF_vars(\E t \in Threads : FLReturnToSignals(t))
    /\ WF_vars(\E t \in Threads, k \in OutNames, ok \in BOOLEAN : LoadOutput(t, k, ok))
    /\ WF_vars(\E t \in Threads : LoadOutputsWait(t))
    /\ WF_vars(\E t \in Threads, k \in InNames, a \in AggResolutions : LoadInput(t, k, a))
    /\ WF_vars(\E t \in Threads : LoadInputsWait(t))
    /\ WF_vars(ProcessExit)
    /\ WF_vars(\E g \in exits : CmdExitBegin(g))
    /\ WF_vars(\E g \in exits, hang \in BOOLEAN : CmdExitAgain(g, hang))
    /\ WF_vars(\E g \in exits : CmdExitAggregator(g))
    /\ WF_vars(\E g \in exits : AwsExitClose(g))
    /\ WF_vars(\E g \in exits : AwsExitReturn(g))

\* The lifecycle manager under fair scheduling.
SpecMainFair == SpecMain /\ MainFairness

\* ------------------------------------------- properties of the aggregator

\* The block ids of a sequence of ids, as a set.
Range(q) == { q[i] : i \in 1..Len(q) }

\* The SendFile calls the reader goroutine made.
WriterHandoffs == { i \in 1..Len(handoffs) : handoffs[i].by = "writer" }

\* The SendFile calls File.Exit made.
ExitHandoffs == { i \in 1..Len(handoffs) : handoffs[i].by = "exit" }

\* The blocks the reader goroutine has taken from the queue.
Applied == Range(tmp.data) \cup UNION { Range(handoffs[i].data) : i \in 1..Len(handoffs) }

\* The blocks that are in a file the sink accepted (SendFile returned nil).
Delivered == UNION { Range(handoffs[i].data) :
                       i \in { j \in 1..Len(handoffs) : handoffs[j].res = "nil" } }

\* Some call of File.Exit has returned.
ExitReturned == \E e \in Exiters : epc[e] = "ret"

\* C1: when Exit() has returned, every block whose Write returned without
\* error is in a segment file that the sink's SendFile accepted.
C1_NoLossOnExit == ExitReturned => returned \subseteq Delivered

C5_Backpressure ==
    /\ Len(bufCh) <= defaultBufSize
    /\ Cardinality(returned \ Applied) <= defaultBufSize
    /\ returned = Applied \cup { bufCh[i].id : i \in 1..Len(bufCh) }
    /\ \A w \in Writers : wpc[w] = "send" => wblk[w].id \notin returned

\* C5's case: the queue is full, nothing was taken from it, and a further
\* Write is waiting for room.
C5_Witness ==
    /\ Len(bufCh) = defaultBufSize
    /\ Applied = {}
    /\ ~bufClosed
    /\ \E w \in Writers : wpc[w] = "send"

\* C7: once Exit() has closed the inbound queue, a later Write does not crash
\* the process (it returns a "closed" error).
C7_WriteAfterExitFails == bufClosed => crash # "Write: send on closed channel"

\* C8: a second Exit() on an instance, after the first has returned, does not
\* crash the process.
C8_ExitTwiceSafe == ExitReturned => crash # "Exit: close of closed channel"

\* C9: Exit() makes no SendFile call for a segment that received no bytes.
C9_NoHandoffOfEmptySegment == \A i \in ExitHandoffs : handoffs[i].data # << >>

\* C13: a sealed segment with data whose SendFile returned the queue-full
\* error is not dropped: the aggregator still holds it as its segment, or a
\* later SendFile for it was accepted.
C13_QueueFullNotDropped ==
    \A i \in 1..Len(handoffs) :
        (handoffs[i].res = "Files channel full" /\ handoffs[i].data # << >>) =>
            \/ tmp.id = handoffs[i].seg
            \/ \E j \in (i + 1)..Len(handoffs) :
                 handoffs[j].seg = handoffs[i].seg /\ handoffs[j].res = "nil"

\* ------------------------------------------------- properties of the sink

\* C3: a file whose put attempts all fail with a retryable error gets exactly
\* maxRetry attempts (with maxRetry - 1 retry delays between them); it is
\* then abandoned, left on disk, and the worker is back at the queue.
C3_RetryBound ==
    /\ stat.attempts <= maxRetry
    /\ spc = "put" => (stat.attempts = retry /\ retry < maxRetry /\ cur.id # last.id)
    /\ last.result = "max retry" =>
         /\ last.attempts = maxRetry
         /\ last.sleeps = maxRetry - 1
         /\ last.first \notin {"nil", errAccessDenied, errSignatureDoesNotMatch}
         /\ last.id \in onDisk
         /\ cur.id # last.id

\* C3's case: a file was abandoned after its maxRetry-th failed attempt and
\* the worker has taken the next file from the queue.
C3_Witness ==
    /\ last.result = "max retry"
    /\ last.attempts = maxRetry
    /\ spc = "put"
    /\ cur.id > last.id

C6_SendFileNeverSuspends ==
    /\ crash # "SendFile: send on closed channel"
    /\ lastSend.res = "nil" =>
         (lastSend.before < fileChSize /\ lastSend.after = lastSend.before + 1)
    /\ lastSend.res = "Files channel full" =>
         (lastSend.before = fileChSize /\ lastSend.after = lastSend.before)

\* The scheduler runs the sink's goroutines, and a put attempt terminates;
\* nothing obliges a client to submit a file or to call Exit().
SinkFairness ==
    /\ WF_vars(SinkRecv)
    /\ WF_vars(\E err \in PutResults : SinkPut(err))
    /\ WF_vars(SinkFileWorkerEnd)
    /\ WF_vars(SinkBytesWorkerEnd)
    /\ WF_vars(SinkListenWait)
    /\ WF_vars(\E x \in SinkExiters : SinkExitDone(x))

\* The sink under fair scheduling.
SpecSinkFair == SpecSink /\ SinkFairness

\* The ids of the files sendFile has returned for.
ProcessedIds == { p.id : p \in processed }

\* C14: every file SendFile accepted gets a put attempt, whatever happened
\* to the files before it (unless a panic has ended the process).
C14_EveryFileAttempted ==
    \A id \in 1..MaxFiles :
        (id \in accepted) ~> \/ id \in ProcessedIds
                             \/ cur.id = id /\ stat.attempts >= 1
                             \/ crash # "none"

\* C15: a file the sink was handed is gone from the disk exactly when a put
\* attempt for it succeeded; after a fatal failure and after the retry limit
\* it is still there, as are the files queued, in progress or refused.
C15_DeleteIffSent ==
    /\ \A id \in 1..(nextSeg - 1) :
         (id \notin onDisk) <=> ([id |-> id, result |-> "sent"] \in processed)
    /\ \A p \in processed : p.result \in {"fatal", "max retry"} => p.id \in onDisk

\* C15's case: one file was uploaded, one failed fatally and one ran out of
\* retries.
C15_Witness ==
    /\ \E p \in processed : p.result = "sent" /\ p.id \notin onDisk
    /\ \E p \in processed : p.result = "fatal" /\ p.id \in onDisk
    /\ \E p \in processed : p.result = "max retry" /\ p.id \in onDisk

\* C16: when Exit() has returned, every file SendFile accepted has been
\* processed (uploaded, or failed for good), the queue is empty, no upload is
\* in progress and both workers of listen() have ended.
C16_ExitDrains ==
    \A x \in SinkExiters :
        xpc[x] = "ret" =>
            /\ accepted \subseteq ProcessedIds
            /\ fileCh = << >>
            /\ cur = NoFile
            /\ spc = "end"
            /\ bpc = "end"

\* C16's case: Exit() was called with a file queued behind one in progress,
\* and has returned.
C16_Witness ==
    /\ \E x \in SinkExiters : xpc[x] = "ret"
    /\ Cardinality(accepted) >= 2
    /\ \E p \in processed : p.result # "sent"

\* ------------------------------------ properties of the lifecycle manager

\* C10: a sink's Exit() has not started while a producer of its generation
\* has not returned from Exit() (its aggregator's final handoff made); and an
\* instance of a generation exists only when every instance of the earlier
\* generations has returned from Exit().
C10_TeardownOrder ==
    /\ \A i \in 1..Len(sinks), j \in 1..Len(prods) :
         (sinks[i].gen = prods[j].gen /\ sinks[i].state # "open")
            => prods[j].state = "exited"
    /\ \A i \in 1..Len(prods), j \in 1..Len(prods) :
         prods[i].gen < prods[j].gen => prods[i].state = "exited"
    /\ \A i \in 1..Len(prods), j \in 1..Len(sinks) :
         prods[i].gen < sinks[j].gen => prods[i].state = "exited"
    /\ \A i \in 1..Len(sinks), j \in 1..Len(prods) :
         sinks[i].gen < prods[j].gen => sinks[i].state = "exited"
    /\ \A i \in 1..Len(sinks), j \in 1..Len(sinks) :
         sinks[i].gen < sinks[j].gen => sinks[i].state = "exited"

\* The goroutines finishLoaded started that are about to call, or are inside,
\* the Exit() of sink i.
SinkExits(i) == { g \in exits : g.kind = "out" /\ g.id = i }

\* C11: every sink's queues are closed at most once and only by its own
\* Exit(): no Exit() is started on a sink whose queues are closed already, no
\* close panics, and the queues of a sink are closed only when every producer
\* bound to it has returned from Exit().
C11_SinkClosedOnce ==
    /\ crash # "AwsS3.Exit: close of closed channel"
    /\ \A i \in 1..Len(sinks) :
         /\ Cardinality(SinkExits(i)) <= 1
         /\ \A g \in SinkExits(i) : g.pc = "start" => sinks[i].state = "open"
         /\ sinks[i].state # "open" =>
              \A j \in 1..Len(prods) : prods[j].out = i => prods[j].state = "exited"

\* The scheduler runs every goroutine that can take a step: listen(), the
\* copy goroutine inside a Write, the reader goroutine, the sink's worker,
\* and a caller of Cmd.Exit once it is inside; a child that was sent SIGTERM
\* exits.  Nothing obliges anybody to call Exit(), a child to exit by itself
\* or to write.
CmdFairness ==
    /\ WF_vars(ListenCheck)
    /\ WF_vars(ListenSleep)
    /\ WF_vars(\E ok \in BOOLEAN : ListenStart(ok))
    /\ WF_vars(ListenStore)
    /\ WF_vars(ListenCheckStarted)
    /\ WF_vars(ListenWait)
    /\ WF_vars(\E k \in 1..MaxSpawns :
                    k <= Len(procs) /\ procs[k].signalled /\ ChildExit(k))
    /\ WF_vars(ChildWriteSend)
    /\ WF_vars(\E e \in CmdExiters : CmdExitSignal(e))
    /\ WF_vars(\E e \in CmdExiters : CmdExitRecv(e))
    /\ WF_vars(\E e \in CmdExiters : CmdExitFileClose(e))
    /\ WF_vars(\E e \in CmdExiters : CmdExitFileDone(e))
    /\ WF_vars(\E e \in CmdExiters : CmdExitFileFlush(e))
    /\ WF_vars(\E e \in CmdExiters : CmdExitReturn(e))
    /\ WF_vars(ReaderStart)
    /\ WF_vars(ReaderRecv)
    /\ WF_vars(ReaderRotate)
    /\ WF_vars(ReaderEnd)
    /\ WF_vars(SinkTake)

\* The command runner under fair scheduling.
SpecCmdFair == SpecCmd /\ CmdFairness

\* -------------------------------------- properties of the command runner

\* Cmd.Exit has reached its call of the aggregator's Exit().
AggregatorExitCalled == \E e \in CmdExiters : cxpc[e] \in {"agg", "ret"}

\* C12: a teardown that meets a producer whose child is writing does not
\* crash the process, and once the aggregator's Exit() has closed the inbound
\* queue no Write is issued on it.
C12_NoWriteAfterTeardown ==
    /\ crash = "none"
    /\ bufClosed => \A w \in Writers : wpc[w] = "idle"

\* C19: Cmd.Exit calls the aggregator's Exit() only when listen() has seen
\* the flag and ended; no child of this producer is running then, and none
\* is spawned afterwards.
C19_ExitAfterSupervisor ==
    AggregatorExitCalled =>
        /\ cpc = "end"
        /\ \A k \in 1..Len(procs) : procs[k].state = "exited"

\* C20: while Exit() has not been called, a child that exited is followed by
\* a new spawn of the command; and when a spawn fails listen() ends (it does
\* not stay blocked) and spawns nothing more.
C20_Supervision ==
    /\ \A k \in 1..(MaxSpawns - 1) :
         (Len(procs) = k /\ procs[k].state = "exited" /\ ~exiting)
            ~> (exiting \/ spawns > k)
    /\ spawnFailed ~> (cpc = "end")
    /\ [][spawnFailed => spawns' = spawns]_vars

\* C17: an instance whose construction failed is not in the registry, no
\* producer is bound to it and no Exit() is called on it.
C17_FailedInstanceOmitted ==
    /\ \A k \in OutNames : regOut[k] # 0 => sinks[regOut[k]].ok
    /\ \A k \in InNames : regIn[k] # 0 => prods[regIn[k]].agg = "file"
    /\ \A j \in 1..Len(prods) : sinks[prods[j].out].ok
    /\ \A g \in exits : IF g.kind = "out" THEN sinks[g.id].ok
                                          ELSE prods[g.id].agg = "file"

\* C18: after a termination signal finishLoaded() returns and the process
\* exits (unless a panic has ended it before).
C18_ShutdownTerminates ==
    (mmode["sig"] = "term") ~> (mpc["main"] = "exited" \/ crash # "none")

\* ------------------------------------------------ synchronous aggregator

\* What the actions of the synchronous aggregator leave alone.
SyncFrame ==
    UNCHANGED << bufCh, bufClosed, rpc, wpc, wblk, epc, crossings, linesLimit,
                 compress, fileChClosed, sinkVars, mainVars, cmdVars >>

\* Another task is inside a.buf.Flush() or about to a.buf.Reset(): a Write
\* into a.buf at that time is a data race on the bufio.Writer.
Racing(t) == \E u \in SyncTasks \ {t} : ypc[u] \in {"f_flush", "f_swap"}

\* What a racing a.buf.Write may do with its block.
RaceOutcomes(t) == IF Racing(t) THEN {"kept", "lost"} ELSE {"kept"}

\* bufio.Writer.Flush, file.go:100: what is buffered goes to the writer
\* a.buf was last reset to; result as << tmp, discarded >>.
BufFlushed ==
    IF bufTo = "discard"
    THEN << tmp, discarded \cup Range(buf) >>
    ELSE << [tmp EXCEPT !.data = @ \o buf], discarded >>

\* Write, file.go:140-143: the test of the flag; a set flag returns the
\* "Flushing..." error with nothing written.
SyncWriteCall(t, s) ==
    /\ crash = "none"
    /\ t \in SyncWriters
    /\ ypc[t] = "idle"
    /\ nextId <= MaxWrites
    /\ nextId' = nextId + 1
    /\ yblk' = [yblk EXCEPT ![t] = [id |-> nextId, nl |-> s.nl, len |-> s.len]]
    /\ IF flushing = 1
       THEN /\ rejected' = rejected \cup {nextId}
            /\ UNCHANGED ypc
       ELSE /\ ypc' = [ypc EXCEPT ![t] = "w_buf"]
            /\ UNCHANGED rejected
    /\ UNCHANGED << flushing, buf, bufTo, discarded, ftmp, fold, preExit, tmp, lines,
                    size, nextSeg, returned, handoffs, fileCh, crash >>
    /\ SyncFrame

\* Write, file.go:145: a.buf.Write(b); a full buffer is written out first.
SyncWriteBuf(t, o) ==
    /\ crash = "none"
    /\ ypc[t] = "w_buf"
    /\ o \in RaceOutcomes(t)
    /\ IF o = "lost"
       THEN /\ discarded' = discarded \cup {yblk[t].id}
            /\ UNCHANGED << buf, tmp >>
       ELSE IF Len(buf) >= bufioSize
       THEN /\ tmp' = BufFlushed[1]
            /\ discarded' = BufFlushed[2]
            /\ buf' = << yblk[t].id >>
       ELSE /\ buf' = Append(buf, yblk[t].id)
            /\ UNCHANGED << tmp, discarded >>
    /\ ypc' = [ypc EXCEPT ![t] = "w_count"]
    /\ UNCHANGED << flushing, bufTo, yblk, ftmp, fold, rejected, preExit, lines, size,
                    nextId, nextSeg, returned, handoffs, fileCh, crash >>
    /\ SyncFrame

\* Write, file.go:151-157: count the newlines; at the limit call Flush(),
\* otherwise return the result of a.buf.Write.
SyncWriteCount(t) ==
    /\ crash = "none"
    /\ ypc[t] = "w_count"
    /\ lines' = lines + yblk[t].nl
    /\ IF lines + yblk[t].nl >= linesLimit
       THEN /\ ypc' = [ypc EXCEPT ![t] = "f_check"]
            /\ UNCHANGED returned
       ELSE /\ ypc' = [ypc EXCEPT ![t] = "idle"]
            /\ returned' = returned \cup {yblk[t].id}
    /\ UNCHANGED << flushing, buf, bufTo, discarded, yblk, ftmp, fold, rejected, preExit,
                    tmp, size, nextId, nextSeg, handoffs, fileCh, crash >>
    /\ SyncFrame

\* Exit, file.go:160-163: Flush().
SyncExit(t) ==
    /\ crash = "none"
    /\ t \in SyncExiters
    /\ ypc[t] = "idle"
    /\ ypc' = [ypc EXCEPT ![t] = "f_check"]
    /\ preExit' = returned
    /\ UNCHANGED << flushing, buf, bufTo, discarded, yblk, ftmp, fold, rejected,
                    tmp, lines, size, nextId, nextSeg, returned, handoffs,
                    fileCh, crash >>
    /\ SyncFrame

\* Flush has returned to its caller: Write returns what a.buf.Write returned
\* (file.go:155-157), Exit returns (file.go:165); result as << ypc, returned >>.
AfterFlush(t) ==
    IF t \in SyncWriters
    THEN << [ypc EXCEPT ![t] = "idle"], returned \cup {yblk[t].id} >>
    ELSE << [ypc EXCEPT ![t] = "ret"], returned >>

\* Flush, file.go:74-76: the load of the flag; when set, return nil.
FlushCheck(t) ==
    /\ crash = "none"
    /\ ypc[t] = "f_check"
    /\ IF flushing = 1
       THEN /\ ypc' = AfterFlush(t)[1]
            /\ returned' = AfterFlush(t)[2]
       ELSE /\ ypc' = [ypc EXCEPT ![t] = "f_set"]
            /\ UNCHANGED returned
    /\ UNCHANGED << flushing, buf, bufTo, discarded, yblk, ftmp, fold, rejected, preExit,
                    tmp, lines, size, nextId, nextSeg, handoffs, fileCh, crash >>
    /\ SyncFrame

\* Flush, file.go:78-97: the store of the flag, then the new temp file and
\* its gzip writer.
FlushSet(t) ==
    /\ crash = "none"
    /\ ypc[t] = "f_set"
    /\ flushing' = 1
    /\ ftmp' = [ftmp EXCEPT ![t] = NewTmp(nextSeg)]
    /\ nextSeg' = nextSeg + 1
    /\ ypc' = [ypc EXCEPT ![t] = "f_flush"]
    /\ UNCHANGED << buf, bufTo, discarded, yblk, fold, rejected, preExit, tmp, lines, size,
                    nextId, returned, handoffs, fileCh, crash >>
    /\ SyncFrame

\* Flush, file.go:100: a.buf.Flush().
FlushBuf(t) ==
    /\ crash = "none"
    /\ ypc[t] = "f_flush"
    /\ tmp' = BufFlushed[1]
    /\ discarded' = BufFlushed[2]
    /\ buf' = << >>
    /\ ypc' = [ypc EXCEPT ![t] = "f_swap"]
    /\ UNCHANGED << flushing, bufTo, yblk, ftmp, fold, rejected, preExit, lines, size,
                    nextId, nextSeg, returned, handoffs, fileCh, crash >>
    /\ SyncFrame

\* Flush, file.go:104-125: under the mutex, a.tmp becomes the new file, a.buf
\* is reset to it (what it still buffers is dropped) and the counters are
\* zeroed; without an old file Flush returns.
FlushSwap(t) ==
    /\ crash = "none"
    /\ ypc[t] = "f_swap"
    /\ fold' = [fold EXCEPT ![t] = tmp]
    /\ tmp' = ftmp[t]
    /\ discarded' = discarded \cup Range(buf)
    /\ buf' = << >>
    /\ bufTo' = "tmp"
    /\ size' = 0
    /\ lines' = 0
    /\ ypc' = [ypc EXCEPT ![t] = IF tmp.id = 0 THEN "f_clear" ELSE "f_send"]
    /\ UNCHANGED << flushing, yblk, ftmp, rejected, preExit, nextId, nextSeg, returned,
                    handoffs, fileCh, crash >>
    /\ SyncFrame

\* Flush, file.go:127-137: close the old gzip writer and hand the old file to
\* the output; what SendFile returns is not looked at.
FlushSend(t) ==
    /\ crash = "none"
    /\ ypc[t] = "f_send"
    /\ LET f == Sealed(fold[t])
           res == SendFileResult(fileCh, fileChClosed) IN
        IF res = "panic"
        THEN /\ crash' = "SendFile: send on closed channel"
             /\ UNCHANGED << fileCh, handoffs, ypc >>
        ELSE /\ fileCh' = IF res = "nil" THEN Append(fileCh, f) ELSE fileCh
             /\ handoffs' = Append(handoffs, [by |-> t, seg |-> f.id,
                                              data |-> f.data, res |-> res])
             /\ ypc' = [ypc EXCEPT ![t] = "f_clear"]
             /\ UNCHANGED crash
    /\ UNCHANGED << flushing, buf, bufTo, discarded, yblk, ftmp, fold, rejected, preExit,
                    tmp, lines, size, nextId, nextSeg, returned >>
    /\ SyncFrame

\* Flush, file.go:79-81: the deferred store clears the flag; Flush returns.
FlushClear(t) ==
    /\ crash = "none"
    /\ ypc[t] = "f_clear"
    /\ flushing' = 0
    /\ ypc' = AfterFlush(t)[1]
    /\ returned' = AfterFlush(t)[2]
    /\ UNCHANGED << buf, bufTo, discarded, yblk, ftmp, fold, rejected, preExit, tmp, lines,
                    size, nextId, nextSeg, handoffs, fileCh, crash >>
    /\ SyncFrame

SyncNext ==
    \/ \E t \in SyncTasks, s \in BlockShapes : SyncWriteCall(t, s)
    \/ \E t \in SyncTasks, o \in {"kept", "lost"} : SyncWriteBuf(t, o)
    \/ \E t \in SyncTasks : SyncWriteCount(t)
    \/ \E t \in SyncTasks : SyncExit(t)
    \/ \E t \in SyncTasks : FlushCheck(t)
    \/ \E t \in SyncTasks : FlushSet(t)
    \/ \E t \in SyncTasks : FlushBuf(t)
    \/ \E t \in SyncTasks : FlushSwap(t)
    \/ \E t \in SyncTasks : FlushSend(t)
    \/ \E t \in SyncTasks : FlushClear(t)
    \/ SinkTake

\* The synchronous aggregator with its two callers and the bound sink's queue.
InitSync ==
    /\ \E c \in 0..MaxLinesLimit, z \in BOOLEAN : AggNew(c, z)
    /\ ChanNew
    /\ SinkNew(TRUE)
    /\ MainNew
    /\ CmdNew
    /\ SyncNew
    /\ crash = "none"

SpecSync == InitSync /\ [][SyncNext]_vars

\* ------------------------------ properties of the synchronous aggregator

\* The blocks that are in a file the synchronous aggregator passed to SendFile.
SyncHandedOff == UNION { Range(handoffs[i].data) : i \in 1..Len(handoffs) }

\* Some call of the synchronous aggregator's Exit has returned.
SyncExitReturned == \E e \in SyncExiters : ypc[e] = "ret"

\* C21: when Exit() of the synchronous aggregator has returned, every block
\* whose Write had returned without error before Exit was called is in a temp
\* file that was passed to the output's SendFile; none was discarded.
C21_SyncNoLossOnExit ==
    SyncExitReturned => /\ preExit \subseteq SyncHandedOff
                        /\ preExit \cap discarded = {}

\* The task is in the body of Flush: it has stored 1 in a.flushing and has
\* not yet run the deferred store of 0.
InFlushBody(t) == ypc[t] \in {"f_flush", "f_swap", "f_send", "f_clear"}

\* The task is in Write past the test of the flag, at a.buf.Write or at the
\* update of a.lines.
InWriteBody(t) == ypc[t] \in {"w_buf", "w_count"}

\* C22: at most one task is in the body of Flush at a time; no Write is at
\* its append to the buffer or at its update of the line counter while
\* another task's Flush is at a.buf.Flush() or at the swap; and a block whose
\* Write returned the "Flushing..." error is in no buffer and in no file.
C22_FlushMutualExclusion ==
    /\ Cardinality({ t \in SyncTasks : InFlushBody(t) }) <= 1
    /\ \A w \in SyncWriters : InWriteBody(w) => ~Racing(w)
    /\ rejected \cap (Range(buf) \cup Range(tmp.data) \cup SyncHandedOff
                      \cup discarded) = {}

====
